---- MODULE Spec2Model ----
(***************************************************************************)
(* Kiln datamodel: Project -> Task -> {TaskRequirement, TaskRun ->         *)
(* TaskOutput}, each entity one file on disk, with the validators of       *)
(* libs/core/kiln_ai/datamodel/__init__.py, and the project management    *)
(* handlers of libs/studio/kiln_studio/project_management.py.              *)
(*                                                                         *)
(* Conventions.  Python None is the string None for optional strings and   *)
(* parent references, NoRating for an absent rating, and a record with     *)
(* exists = FALSE for an absent object or file.  A float f is the integer  *)
(* 2*f (halves), so 4.0 is 8 and 2.5 is 5.                                 *)
(***************************************************************************)
EXTENDS Integers, Sequences, FiniteSets, TLC

VARIABLES
    mem_project,  \* the in-memory Project object
    mem_task,     \* the in-memory Task object (the handle children hold)
    loaded_task,  \* a second Task object, returned by Task.load_from_file
    mem_req,      \* in-memory TaskRequirement objects, by id
    mem_run,      \* in-memory TaskRun objects, by id
    mem_out,      \* in-memory TaskOutput objects, by id
    rating_obj,   \* what the last TaskOutputRating(...) call returned, if it did
    disk,         \* the files: project, task, reqs, runs, outputs
    now,          \* the clock the timestamps are read from
    fs,           \* studio: what is at each path of the file system
    config_projects, \* studio: the "projects" setting of Config.shared()
    created,      \* studio: the names of the create_project calls that returned
    last          \* the last operation and how it ended

vars == <<mem_project, mem_task, loaded_task, mem_req, mem_run, mem_out, rating_obj,
          disk, now, fs, config_projects, created, last>>

\* the state of the studio's project management
studio == <<fs, config_projects, created>>

None == "None"

-----------------------------------------------------------------------------
(* Texts.  json.loads and the schema validator are modelled on these.      *)

PlainText == "Test output"
GoodJson == "{\"name\": \"John Doe\", \"age\": 30}"
BadJson == "{\"name\": \"John Doe\", \"age\": \"thirty\"}"
FixedJson == "{\"name\": \"John Doe\", \"age\": 31}"
SchemaNameAge == "{\"type\": \"object\", \"properties\": {\"name\": {\"type\": \"string\"}, \"age\": {\"type\": \"integer\"}}, \"required\": [\"name\", \"age\"]}"

JSONDecodeError == [kind |-> "JSONDecodeError"]

\* json.loads(text): the parsed value (an object as key -> JSON type of the
\* value), or JSONDecodeError.
json_loads(text) ==
    CASE text = GoodJson -> [kind |-> "object", fields |-> [name |-> "string", age |-> "integer"]]
      [] text = FixedJson -> [kind |-> "object", fields |-> [name |-> "string", age |-> "integer"]]
      [] text = BadJson -> [kind |-> "object", fields |-> [name |-> "string", age |-> "string"]]
      [] OTHER -> JSONDecodeError

\* schema_from_json_str(schema_text): the schema document as a dict.
schema_from_json_str(schema_text) ==
    CASE schema_text = SchemaNameAge ->
            [type |-> "object",
             properties |-> [name |-> "string", age |-> "integer"],
             required |-> {"name", "age"}]
      [] OTHER -> [type |-> "object", properties |-> <<>>, required |-> {}]

\* validate_schema(instance, schema_text): TRUE when the instance satisfies the
\* schema (jsonschema raises ValidationError otherwise).
validate_schema(instance, schema_text) ==
    LET schema == schema_from_json_str(schema_text) IN
    /\ instance.kind = schema.type
    /\ schema.required \subseteq DOMAIN instance.fields
    /\ \A k \in DOMAIN instance.fields \cap DOMAIN schema.properties :
          instance.fields[k] = schema.properties[k]

-----------------------------------------------------------------------------
(* Validation results.                                                     *)

Ok == [kind |-> "ok", keys |-> {}]
Err(kind, keys) == [kind |-> kind, keys |-> keys]

\* JSON values of a file
Null == [t |-> "null"]
Str(s) == [t |-> "string", v |-> s]
Num(h) == [t |-> "number", v |-> h]
Obj(f) == [t |-> "object", v |-> f]

-----------------------------------------------------------------------------
(* TaskOutputRating.                                                       *)

NoRating == [type |-> None, rating |-> 0, requirement_ratings |-> <<>>]

\* float.is_integer() on a float held as halves
is_integer(rating) == rating % 2 = 0

_validate_five_star(rating) ==
    IF ~is_integer(rating) THEN Err("five_star_not_integer", {})
    ELSE IF rating < 2 \/ rating > 10 THEN Err("five_star_out_of_range", {})
    ELSE Ok

\* the requirement ratings are not checked
validate_rating_OverallOnly(r) ==
    IF r.type \notin {"five_star", "custom"} THEN Err("invalid_rating_type", {})
    ELSE IF r.type = "five_star" THEN _validate_five_star(r.rating)
    ELSE Ok

validate_rating(r) ==
    IF r.type \notin {"five_star", "custom"} THEN Err("invalid_rating_type", {})
    ELSE IF r.type = "five_star"
    THEN IF _validate_five_star(r.rating) # Ok
         THEN _validate_five_star(r.rating)
         ELSE LET bad == {k \in DOMAIN r.requirement_ratings :
                             _validate_five_star(r.requirement_ratings[k]) # Ok}
              IN  IF bad = {} THEN Ok
                  ELSE LET k == CHOOSE k \in bad : TRUE
                       IN  Err(_validate_five_star(r.requirement_ratings[k]).kind, bad)
    ELSE Ok

-----------------------------------------------------------------------------
(* Tasks as the validators see them.                                       *)

NoTask == [exists |-> FALSE, saved |-> FALSE, parent |-> None,
           output_json_schema |-> None, input_json_schema |-> None,
           created_at |-> Null]

\* Variants of the validators with one plausible slip each.
\* a JSONDecodeError is swallowed instead of re-raised
validate_output_format_SwallowDecodeError(task, output) ==
    IF ~task.exists THEN Ok
    ELSE IF task.output_json_schema # None
    THEN IF json_loads(output) = JSONDecodeError THEN Ok
         ELSE IF ~validate_schema(json_loads(output), task.output_json_schema)
         THEN Err("output_schema_mismatch", {})
         ELSE Ok
    ELSE Ok

\* a missing task is an error instead of a deferral
validate_output_format_Eager(task, output) ==
    IF ~task.exists THEN Err("no_task", {})
    ELSE IF task.output_json_schema # None
    THEN IF json_loads(output) = JSONDecodeError THEN Err("output_not_json", {})
         ELSE IF ~validate_schema(json_loads(output), task.output_json_schema)
         THEN Err("output_schema_mismatch", {})
         ELSE Ok
    ELSE Ok

\* the input schema is consulted instead of the output schema
validate_output_format_InputSchema(task, output) ==
    IF ~task.exists THEN Ok
    ELSE IF task.input_json_schema # None
    THEN IF json_loads(output) = JSONDecodeError THEN Err("output_not_json", {})
         ELSE IF ~validate_schema(json_loads(output), task.input_json_schema)
         THEN Err("output_schema_mismatch", {})
         ELSE Ok
    ELSE Ok

\* the output is parsed as JSON whether or not the Task declares a schema
validate_output_format_AlwaysJson(task, output) ==
    IF ~task.exists THEN Ok
    ELSE IF json_loads(output) = JSONDecodeError THEN Err("output_not_json", {})
    ELSE IF task.output_json_schema # None
            /\ ~validate_schema(json_loads(output), task.output_json_schema)
    THEN Err("output_schema_mismatch", {})
    ELSE Ok

\* TaskOutput.validate_output_format, given task_for_validation()'s result
validate_output_format(task, output) ==
    IF ~task.exists THEN Ok
    ELSE IF task.output_json_schema # None
    THEN IF json_loads(output) = JSONDecodeError THEN Err("output_not_json", {})
         ELSE IF ~validate_schema(json_loads(output), task.output_json_schema)
         THEN Err("output_schema_mismatch", {})
         ELSE Ok
    ELSE Ok

\* only a rating none of whose keys is a requirement id is rejected
validate_requirement_rating_keys_AnyKey(rating, task, requirement_ids) ==
    IF rating = NoRating \/ DOMAIN rating.requirement_ratings = {} THEN Ok
    ELSE IF ~task.exists THEN Ok
    ELSE LET unknown == DOMAIN rating.requirement_ratings \ requirement_ids
         IN  IF unknown = DOMAIN rating.requirement_ratings
             THEN Err("invalid_requirement_id", unknown) ELSE Ok

\* TaskOutput.validate_requirement_rating_keys; requirement_ids are the ids
\* of task.requirements()
validate_requirement_rating_keys(rating, task, requirement_ids) ==
    IF rating = NoRating \/ DOMAIN rating.requirement_ratings = {} THEN Ok
    ELSE IF ~task.exists THEN Ok
    ELSE LET unknown == DOMAIN rating.requirement_ratings \ requirement_ids
         IN  IF unknown # {} THEN Err("invalid_requirement_id", unknown) ELSE Ok

SyntheticKeys == {"adapter_name", "model_name", "model_provider", "prompt_builder_name"}
HumanKeys == {"creator"}

\* an empty value of a required key is accepted
validate_source_properties_AllowEmpty(source, source_properties) ==
    IF source \notin {"synthetic", "human"} THEN Err("invalid_source_type", {})
    ELSE LET required_keys == IF source = "synthetic" THEN SyntheticKeys ELSE HumanKeys
             missing_keys == required_keys \ DOMAIN source_properties
         IN  IF missing_keys # {} THEN Err("source_properties_missing", missing_keys)
             ELSE Ok

\* TaskOutput.validate_source_properties
validate_source_properties(source, source_properties) ==
    IF source \notin {"synthetic", "human"} THEN Err("invalid_source_type", {})
    ELSE LET required_keys == IF source = "synthetic" THEN SyntheticKeys ELSE HumanKeys
             missing_keys == required_keys \ DOMAIN source_properties
             empty_keys == {k \in required_keys \cap DOMAIN source_properties :
                               source_properties[k] = ""}
         IN  IF empty_keys # {} THEN Err("source_properties_empty", empty_keys)
             ELSE IF missing_keys # {} THEN Err("source_properties_missing", missing_keys)
             ELSE Ok

\* the parsed input is not checked against the schema
validate_input_format_ParseOnly(task, input) ==
    IF ~task.exists THEN Ok
    ELSE IF task.input_json_schema # None
    THEN IF json_loads(input) = JSONDecodeError THEN Err("input_not_json", {})
         ELSE Ok
    ELSE Ok

\* a JSONDecodeError is swallowed instead of re-raised
validate_input_format_SwallowDecodeError(task, input) ==
    IF ~task.exists THEN Ok
    ELSE IF task.input_json_schema # None
    THEN IF json_loads(input) = JSONDecodeError THEN Ok
         ELSE IF ~validate_schema(json_loads(input), task.input_json_schema)
         THEN Err("input_schema_mismatch", {})
         ELSE Ok
    ELSE Ok

\* TaskRun.validate_input_format, given self.parent
validate_input_format(task, input) ==
    IF ~task.exists THEN Ok
    ELSE IF task.input_json_schema # None
    THEN IF json_loads(input) = JSONDecodeError THEN Err("input_not_json", {})
         ELSE IF ~validate_schema(json_loads(input), task.input_json_schema)
         THEN Err("input_schema_mismatch", {})
         ELSE Ok
    ELSE Ok

\* the first error of a sequence of validator results, in declaration order
FirstError(results) ==
    IF \A i \in 1..Len(results) : results[i] = Ok THEN Ok
    ELSE results[CHOOSE i \in 1..Len(results) :
                    /\ results[i] # Ok
                    /\ \A j \in 1..(i - 1) : results[j] = Ok]

-----------------------------------------------------------------------------
(* Entities and files.                                                     *)

ReqIds == {"q1", "q2"}
RunIds == {"r1", "r2"}
OutIds == {"o1", "o2"}
FileIds == {"project", "task"} \cup ReqIds \cup RunIds \cup OutIds

HumanProps == [creator |-> "john_doe"]
EmptyProps == [k \in {} |-> ""]

\* created_at of an object is Null until the first save, then Num(time)
NoProject == [exists |-> FALSE, saved |-> FALSE, name |-> None, created_at |-> Null]
NoReq == [exists |-> FALSE, saved |-> FALSE, parent |-> None, name |-> None,
          created_at |-> Null]
NoRun == [exists |-> FALSE, saved |-> FALSE, parent |-> None, input |-> None,
          source |-> None, source_properties |-> EmptyProps, created_at |-> Null]
NoOut == [exists |-> FALSE, saved |-> FALSE, parent |-> None, output |-> None,
          source |-> None, source_properties |-> EmptyProps,
          rating |-> NoRating, fixed_output |-> None, deferred |-> FALSE,
          created_at |-> Null]

\* the two relationships of Task bound to each other's child type
parent_of_Swapped ==
    [Project |-> [tasks |-> "Task"],
     Task |-> [requirements |-> "TaskRun", runs |-> "TaskRequirement"],
     TaskRun |-> [outputs |-> "TaskOutput"]]

\* the parent_of declarations: parent type -> relationship name -> child type
parent_of ==
    [Project |-> [tasks |-> "Task"],
     Task |-> [requirements |-> "TaskRequirement", runs |-> "TaskRun"],
     TaskRun |-> [outputs |-> "TaskOutput"]]

\* base_filename() of an entity type
base_filename(type) ==
    CASE type = "Project" -> "project.json"
      [] type = "Task" -> "task.json"
      [] type = "TaskRequirement" -> "task_requirement.json"
      [] type = "TaskRun" -> "task_run.json"
      [] type = "TaskOutput" -> "task_output.json"

\* relationship_name() of a child type under a parent type
relationship_name(parent_type, child_type) ==
    CHOOSE rel \in DOMAIN parent_of[parent_type] :
        parent_of[parent_type][rel] = child_type

NoFile == [exists |-> FALSE, dir |-> None, folder |-> None, filename |-> None,
           json |-> <<>>]

\* the file of a child saved under the directory of `dir`
ChildFile(dir, parent_type, child_type, json) ==
    [exists |-> TRUE, dir |-> dir,
     folder |-> relationship_name(parent_type, child_type),
     filename |-> base_filename(child_type), json |-> json]

RootFile(type, json) ==
    [exists |-> TRUE, dir |-> None, folder |-> None,
     filename |-> base_filename(type), json |-> json]

OptStr(s) == IF s = None THEN Null ELSE Str(s)
FromOptStr(j) == IF j = Null THEN None ELSE j.v

\* model_dump_json of each entity type (path and parent are excluded)
dump_project(p, id) == [id |-> Str(id), created_at |-> p.created_at, name |-> Str(p.name)]

dump_task(t, id) ==
    [id |-> Str(id), created_at |-> t.created_at,
     output_json_schema |-> OptStr(t.output_json_schema),
     input_json_schema |-> OptStr(t.input_json_schema)]

dump_req(q, id) == [id |-> Str(id), created_at |-> q.created_at, name |-> Str(q.name)]

dump_props(props) == Obj([k \in DOMAIN props |-> Str(props[k])])

dump_run(r, id) ==
    [id |-> Str(id), created_at |-> r.created_at,
     input |-> Str(r.input), source |-> Str(r.source),
     source_properties |-> dump_props(r.source_properties)]

dump_rating(r) ==
    IF r = NoRating THEN Null
    ELSE Obj([type |-> Str(r.type), rating |-> Num(r.rating),
              requirement_ratings |->
                  Obj([k \in DOMAIN r.requirement_ratings |->
                          Num(r.requirement_ratings[k])])])

dump_output(o, id) ==
    [id |-> Str(id), created_at |-> o.created_at,
     output |-> Str(o.output), source |-> Str(o.source),
     source_properties |-> dump_props(o.source_properties),
     rating |-> dump_rating(o.rating),
     fixed_output |-> OptStr(o.fixed_output)]

\* model_validate_json of each entity type: the fields of the file; the
\* object gets its path, and its parent is resolved from the path
parse_props(j) == [k \in DOMAIN j.v |-> j.v[k].v]

parse_rating(j) ==
    IF j = Null THEN NoRating
    ELSE [type |-> j.v.type.v, rating |-> j.v.rating.v,
          requirement_ratings |->
              [k \in DOMAIN j.v.requirement_ratings.v |->
                  j.v.requirement_ratings.v[k].v]]

parse_project(f) ==
    [exists |-> TRUE, saved |-> TRUE, name |-> f.json.name.v,
     created_at |-> f.json.created_at]

parse_task(f) ==
    [exists |-> TRUE, saved |-> TRUE, parent |-> f.dir,
     output_json_schema |-> FromOptStr(f.json.output_json_schema),
     input_json_schema |-> FromOptStr(f.json.input_json_schema),
     created_at |-> f.json.created_at]

parse_req(f) ==
    [exists |-> TRUE, saved |-> TRUE, parent |-> f.dir, name |-> f.json.name.v,
     created_at |-> f.json.created_at]

parse_run(f) ==
    [exists |-> TRUE, saved |-> TRUE, parent |-> f.dir, input |-> f.json.input.v,
     source |-> f.json.source.v,
     source_properties |-> parse_props(f.json.source_properties),
     created_at |-> f.json.created_at]

parse_output(f) ==
    [exists |-> TRUE, saved |-> TRUE, parent |-> f.dir, output |-> f.json.output.v,
     source |-> f.json.source.v,
     source_properties |-> parse_props(f.json.source_properties),
     rating |-> parse_rating(f.json.rating),
     fixed_output |-> FromOptStr(f.json.fixed_output),
     deferred |-> FALSE, created_at |-> f.json.created_at]

\* children(relationship) of a parent: the ids of the files in the parent's
\* relationship folder that carry the child type's file name
children(d, parent_id, parent_type, rel) ==
    {id \in FileIds :
        /\ d[id].exists
        /\ d[id].dir = parent_id
        /\ d[id].folder = rel
        /\ d[id].filename = base_filename(parent_of[parent_type][rel])}

-----------------------------------------------------------------------------
(* DataSource.                                                             *)

\* DataSource._data_source_properties
_data_source_properties ==
    <<[name |-> "created_by", type |-> "str",
       required_for |-> {"human"}, not_allowed_for |-> {"synthetic"}],
      [name |-> "model_name", type |-> "str",
       required_for |-> {"synthetic"}, not_allowed_for |-> {"human"}],
      [name |-> "model_provider", type |-> "str",
       required_for |-> {"synthetic"}, not_allowed_for |-> {"human"}],
      [name |-> "prompt_type", type |-> "str",
       required_for |-> {}, not_allowed_for |-> {"human"}]>>

\* a value of DataSource.properties: a Python str, int or float
PyStr(s) == [py |-> "str", v |-> s]
PyInt(s) == [py |-> "int", v |-> s]

\* isinstance(value, eval(type))
isinstance(value, type) == value.py = type

\* the body of the loop of DataSource.validate_properties for one prop
validate_property(type, properties, prop) ==
    IF type \in prop.required_for
    THEN IF prop.name \notin DOMAIN properties
         THEN Err("property_required", {prop.name})
         ELSE IF ~isinstance(properties[prop.name], prop.type)
         THEN Err("property_must_be_of_type", {prop.name})
         ELSE Ok
    ELSE IF type \in prop.not_allowed_for /\ prop.name \in DOMAIN properties
    THEN Err("property_not_allowed", {prop.name})
    ELSE Ok

\* DataSource.validate_properties: the first prop of the table that raises
validate_properties(type, properties) ==
    FirstError([i \in 1..Len(_data_source_properties) |->
                   validate_property(type, properties, _data_source_properties[i])])

-----------------------------------------------------------------------------
(* The studio's project management: paths, files and the projects setting. *)

\* a path is the sequence of its segments; os.path.join(path, name)
join(path, name) == Append(path, name)

\* default_project_path()
default_project_path == join(<<"home">>, "Kiln Projects")

\* the names given to create_project; a project of the last name was created
\* in an earlier session and is in no setting
ProjectNames == {"Alpha", "Beta", "Old"}

\* paths given to import_project: two project files outside the default
\* directory, a file that is no project, a path with nothing at it, and None
GoodFile == <<"work", "good", "project.json">>
OtherGoodFile == <<"work", "other", "project.json">>
BrokenFile == <<"work", "broken", "project.json">>
MissingFile == <<"work", "missing", "project.json">>
NonePath == <<>>

Paths ==
    {default_project_path}
    \cup {join(default_project_path, name) : name \in ProjectNames}
    \cup {join(join(default_project_path, name), "project.json") : name \in ProjectNames}
    \cup {GoodFile, OtherGoodFile, BrokenFile, MissingFile}

\* what is at a path: nothing, a directory, a project file, another file
Absent == [kind |-> "absent", loads |-> FALSE, name |-> None]
Directory == [kind |-> "dir", loads |-> FALSE, name |-> None]
ProjectFile(name) == [kind |-> "file", loads |-> TRUE, name |-> name]
OtherFile == [kind |-> "file", loads |-> FALSE, name |-> None]

InitialFs ==
    [path \in Paths |->
        CASE path = default_project_path -> Directory
          [] path = join(default_project_path, "Old") -> Directory
          [] path = join(join(default_project_path, "Old"), "project.json") ->
                ProjectFile("Old")
          [] path = GoodFile -> ProjectFile("Good")
          [] path = OtherGoodFile -> ProjectFile("Other")
          [] path = BrokenFile -> OtherFile
          [] OTHER -> Absent]

\* os.path.exists(path)
exists(f, path) == path \in DOMAIN f /\ f[path].kind # "absent"

\* os.makedirs(path): the directory and its missing ancestors
makedirs(f, path) ==
    [q \in DOMAIN f |->
        IF Len(q) <= Len(path) /\ SubSeq(path, 1, Len(q)) = q /\ f[q].kind = "absent"
        THEN Directory ELSE f[q]]

\* Project.load_from_file(path): raises unless the path holds a project file
load_project(f, path) ==
    IF ~exists(f, path) THEN Err("not_found", {})
    ELSE IF ~f[path].loads THEN Err("invalid_project_file", {})
    ELSE Ok

\* Config.shared().projects: None until the setting is saved, then a list
NoSetting == [is_list |-> FALSE, items |-> <<>>]

\* x in items
contains(items, x) == \E i \in 1..Len(items) : items[i] = x

\* the path is appended whether or not it is listed
add_project_to_config_AlwaysAppend(setting, project_path) ==
    LET projects == IF ~setting.is_list THEN <<>> ELSE setting.items
    IN  [is_list |-> TRUE, items |-> Append(projects, project_path)]

\* add_project_to_config(project_path): the setting afterwards
add_project_to_config(setting, project_path) ==
    LET projects == IF ~setting.is_list THEN <<>> ELSE setting.items
    IN  IF ~contains(projects, project_path)
        THEN [is_list |-> TRUE, items |-> Append(projects, project_path)]
        ELSE setting

\* an HTTPException with a status code
HTTPException(status_code) == [kind |-> "HTTPException", keys |-> {status_code}]

-----------------------------------------------------------------------------
(* The last operation.                                                     *)

\* op on entity id, arg the object the operation validated (None when it
\* validates nothing), ok whether it returned rather than raised
Result(op, id, arg, res) ==
    [op |-> op, id |-> id, arg |-> arg, ok |-> (res = Ok), err |-> res]

Init ==
    /\ mem_project = NoProject
    /\ mem_task = NoTask
    /\ mem_req = [q \in ReqIds |-> NoReq]
    /\ mem_run = [r \in RunIds |-> NoRun]
    /\ mem_out = [o \in OutIds |-> NoOut]
    /\ rating_obj = NoRating
    /\ disk = [id \in FileIds |-> NoFile]
    /\ loaded_task = NoTask
    /\ now = 0
    /\ fs = InitialFs
    /\ config_projects = NoSetting
    /\ created = <<>>
    /\ last = Result("init", None, None, Ok)

\* save stamps every entity on each write
assign_created_at_Restamp(created_at, time) == Num(time)

\* save assigns created_at if it is unset
assign_created_at(created_at, time) ==
    IF created_at = Null THEN Num(time) ELSE created_at

\* the object as save writes it and leaves it
stamped(obj) ==
    [obj EXCEPT !.created_at = assign_created_at(obj.created_at, now)]

-----------------------------------------------------------------------------
(* Project.                                                                *)

\* Project(name=..., path=...)
ConstructProject(name) ==
    /\ ~mem_project.exists
    /\ mem_project' = [exists |-> TRUE, saved |-> FALSE, name |-> name,
                       created_at |-> Null]
    /\ last' = Result("construct_project", "project", None, Ok)
    /\ UNCHANGED <<mem_task, mem_req, mem_run, mem_out, rating_obj, disk, loaded_task, now, studio>>

\* project.save_to_file()
SaveProject ==
    /\ mem_project.exists
    /\ disk' = [disk EXCEPT !["project"] =
                   RootFile("Project", dump_project(stamped(mem_project), "project"))]
    /\ mem_project' = [stamped(mem_project) EXCEPT !.saved = TRUE]
    /\ last' = Result("save_project", "project", None, Ok)
    /\ UNCHANGED <<mem_task, mem_req, mem_run, mem_out, rating_obj, loaded_task, now, studio>>

-----------------------------------------------------------------------------
(* Task.                                                                   *)

\* Task(parent=project, output_json_schema=..., input_json_schema=...)
ConstructTask(osch, isch) ==
    /\ mem_project.exists
    /\ ~mem_task.exists
    /\ mem_task' = [exists |-> TRUE, saved |-> FALSE, parent |-> "project",
                    output_json_schema |-> osch, input_json_schema |-> isch,
                    created_at |-> Null]
    /\ last' = Result("construct_task", "task", None, Ok)
    /\ UNCHANGED <<mem_project, mem_req, mem_run, mem_out, rating_obj, disk, loaded_task, now, studio>>

\* task.output_json_schema = osch
SetTaskOutputSchema(osch) ==
    /\ mem_task.exists
    /\ mem_task.output_json_schema # osch
    /\ mem_task' = [mem_task EXCEPT !.output_json_schema = osch]
    /\ last' = Result("set_task_output_schema", "task", None, Ok)
    /\ UNCHANGED <<mem_project, mem_req, mem_run, mem_out, rating_obj, disk, loaded_task, now, studio>>

\* task.input_json_schema = isch
SetTaskInputSchema(isch) ==
    /\ mem_task.exists
    /\ mem_task.input_json_schema # isch
    /\ mem_task' = [mem_task EXCEPT !.input_json_schema = isch]
    /\ last' = Result("set_task_input_schema", "task", None, Ok)
    /\ UNCHANGED <<mem_project, mem_req, mem_run, mem_out, rating_obj, disk, loaded_task, now, studio>>

\* the result of build_path(): a parented entity needs a parent with a path
PathError(parent_saved) == IF parent_saved THEN Ok ELSE Err("no_path", {})

\* task.save_to_file()
SaveTask ==
    /\ mem_task.exists
    /\ LET res == PathError(mem_task.saved \/ mem_project.saved) IN
       /\ last' = Result("save_task", "task", None, res)
       /\ IF res = Ok
          THEN /\ disk' = [disk EXCEPT !["task"] =
                              ChildFile("project", "Project", "Task",
                                        dump_task(stamped(mem_task), "task"))]
               /\ mem_task' = [stamped(mem_task) EXCEPT !.saved = TRUE]
          ELSE UNCHANGED <<disk, mem_task>>
    /\ UNCHANGED <<mem_project, mem_req, mem_run, mem_out, rating_obj, loaded_task, now, studio>>

-----------------------------------------------------------------------------
(* TaskRequirement.                                                        *)

\* TaskRequirement(name=..., instruction=..., parent=task)
ConstructRequirement(q) ==
    /\ mem_task.exists
    /\ ~mem_req[q].exists
    /\ mem_req' = [mem_req EXCEPT ![q] =
                      [exists |-> TRUE, saved |-> FALSE, parent |-> "task", name |-> q,
                       created_at |-> Null]]
    /\ last' = Result("construct_requirement", q, None, Ok)
    /\ UNCHANGED <<mem_project, mem_task, mem_run, mem_out, rating_obj, disk, loaded_task, now, studio>>

\* req.save_to_file()
SaveRequirement(q) ==
    /\ mem_req[q].exists
    /\ LET res == PathError(mem_req[q].saved \/ mem_task.saved) IN
       /\ last' = Result("save_requirement", q, None, res)
       /\ IF res = Ok
          THEN /\ disk' = [disk EXCEPT ![q] =
                              ChildFile("task", "Task", "TaskRequirement",
                                        dump_req(stamped(mem_req[q]), q))]
               /\ mem_req' = [mem_req EXCEPT ![q] = [stamped(mem_req[q]) EXCEPT !.saved = TRUE]]
          ELSE UNCHANGED <<disk, mem_req>>
    /\ UNCHANGED <<mem_project, mem_task, mem_run, mem_out, rating_obj, loaded_task, now, studio>>

-----------------------------------------------------------------------------
(* What the validators of an object see.                                   *)

\* pydantic's check of a DataSourceType field
validate_source_field(source) ==
    IF source \in {"human", "synthetic"} THEN Ok ELSE Err("invalid_enum_value", {})

\* TaskRun.parent of an in-memory run: the Task object it was given
RunParent(run) == IF run.parent = None THEN NoTask ELSE mem_task

\* TaskOutput.task_for_validation of an in-memory output
task_for_validation(out) ==
    IF out.parent = None THEN NoTask
    ELSE RunParent(mem_run[out.parent])

\* the ids of task.requirements(): the requirement files under the task's path
requirement_ids(task, d) ==
    IF task.saved
    THEN {d[id].json.id.v : id \in children(d, "task", "Task", "requirements")}
    ELSE {}

\* all validators of a TaskRun, in order
validate_TaskRun(run, task) ==
    FirstError(<<validate_source_field(run.source),
                 validate_input_format(task, run.input)>>)

\* all validators of a TaskOutput, in order
validate_TaskOutput(out, task, d) ==
    FirstError(<<validate_source_field(out.source),
                 IF out.rating = NoRating THEN Ok ELSE validate_rating(out.rating),
                 validate_output_format(task, out.output),
                 validate_requirement_rating_keys(out.rating, task,
                                                  requirement_ids(task, d)),
                 validate_source_properties(out.source, out.source_properties)>>)

\* load_from_file of a file: missing file, then the validators on the parsed
\* content, with the parents resolved from the path
load_task(d) ==
    IF ~d["task"].exists THEN Err("not_found", {}) ELSE Ok

load_run(d, r) ==
    IF ~d[r].exists THEN Err("not_found", {})
    ELSE FirstError(<<load_task(d),
                      validate_TaskRun(parse_run(d[r]), parse_task(d["task"]))>>)

load_output(d, o) ==
    IF ~d[o].exists THEN Err("not_found", {})
    ELSE FirstError(<<load_task(d),
                      validate_TaskOutput(parse_output(d[o]), parse_task(d["task"]), d)>>)

-----------------------------------------------------------------------------
(* TaskRun.                                                                *)

\* TaskRun(input=..., source=..., source_properties=..., parent=...)
ConstructRun(r, parent, input, source, props) ==
    /\ ~mem_run[r].exists
    /\ parent # None => mem_task.exists
    /\ LET run == [exists |-> TRUE, saved |-> FALSE, parent |-> parent,
                   input |-> input, source |-> source, source_properties |-> props,
                   created_at |-> Null]
           res == validate_TaskRun(run, RunParent(run))
       IN  /\ last' = Result("construct_run", r, run, res)
           /\ mem_run' = IF res = Ok THEN [mem_run EXCEPT ![r] = run] ELSE mem_run
    /\ UNCHANGED <<mem_project, mem_task, mem_req, mem_out, rating_obj, disk, loaded_task, now, studio>>

\* run.input = input
SetRunInput(r, input) ==
    /\ mem_run[r].exists
    /\ mem_run[r].input # input
    /\ LET run == [mem_run[r] EXCEPT !.input = input] IN
       /\ mem_run' = [mem_run EXCEPT ![r] = run]
       /\ last' = Result("set_run_input", r, run, validate_TaskRun(run, RunParent(run)))
    /\ UNCHANGED <<mem_project, mem_task, mem_req, mem_out, rating_obj, disk, loaded_task, now, studio>>

\* run.parent = task, on a run built without a parent
SetRunParent(r) ==
    /\ mem_run[r].exists
    /\ mem_run[r].parent = None
    /\ mem_task.exists
    /\ LET run == [mem_run[r] EXCEPT !.parent = "task"] IN
       /\ mem_run' = [mem_run EXCEPT ![r] = run]
       /\ last' = Result("set_run_parent", r, run, validate_TaskRun(run, RunParent(run)))
    /\ UNCHANGED <<mem_project, mem_task, mem_req, mem_out, rating_obj, disk, loaded_task, now, studio>>

\* run.save_to_file()
SaveRun(r) ==
    /\ mem_run[r].exists
    /\ LET run == mem_run[r]
           res == FirstError(<<validate_TaskRun(run, RunParent(run)),
                               PathError(run.saved \/
                                         (run.parent # None /\ mem_task.saved))>>)
       IN  /\ last' = Result("save_run", r, run, res)
           /\ IF res = Ok
              THEN /\ disk' = [disk EXCEPT ![r] =
                                  ChildFile("task", "Task", "TaskRun",
                                            dump_run(stamped(run), r))]
                   /\ mem_run' = [mem_run EXCEPT ![r] = [stamped(run) EXCEPT !.saved = TRUE]]
              ELSE UNCHANGED <<disk, mem_run>>
    /\ UNCHANGED <<mem_project, mem_task, mem_req, mem_out, rating_obj, loaded_task, now, studio>>

\* TaskRun.load_from_file(path of r)
LoadRun(r) ==
    /\ last' = Result("load_run", r, None, load_run(disk, r))
    /\ UNCHANGED <<mem_project, mem_task, mem_req, mem_run, mem_out, rating_obj, disk, loaded_task, now, studio>>

-----------------------------------------------------------------------------
(* TaskOutputRating and TaskOutput.                                        *)

\* TaskOutputRating(type=..., rating=..., requirement_ratings=...)
ConstructRating(type, rating, requirement_ratings) ==
    LET r == [type |-> type, rating |-> rating,
              requirement_ratings |-> requirement_ratings]
    IN  /\ last' = Result("construct_rating", None, r, validate_rating(r))
        /\ rating_obj' = IF validate_rating(r) = Ok THEN r ELSE NoRating
        /\ UNCHANGED <<mem_project, mem_task, mem_req, mem_run, mem_out, disk, loaded_task, now, studio>>

\* TaskOutput(output=..., source=..., source_properties=..., parent=...,
\*            rating=..., fixed_output=...); rating is a TaskOutputRating that
\* was constructed, or None
ConstructOutput(o, parent, output, source, props, rating, fixed_output) ==
    /\ ~mem_out[o].exists
    /\ parent # None => mem_run[parent].exists
    /\ rating # NoRating => validate_rating(rating) = Ok
    /\ LET out0 == [exists |-> TRUE, saved |-> FALSE, parent |-> parent,
                    output |-> output, source |-> source, source_properties |-> props,
                    rating |-> rating, fixed_output |-> fixed_output,
                    deferred |-> FALSE, created_at |-> Null]
           out == [out0 EXCEPT !.deferred = ~task_for_validation(out0).exists]
           res == validate_TaskOutput(out, task_for_validation(out), disk)
       IN  /\ last' = Result("construct_output", o, out, res)
           /\ mem_out' = IF res = Ok THEN [mem_out EXCEPT ![o] = out] ELSE mem_out
    /\ UNCHANGED <<mem_project, mem_task, mem_req, mem_run, rating_obj, disk, loaded_task, now, studio>>

\* an assignment to a field of an output: the value is replaced and the
\* validators run on the result
AssignOutput(o, out, op) ==
    /\ mem_out' = [mem_out EXCEPT ![o] = out]
    /\ last' = Result(op, o, out, validate_TaskOutput(out, task_for_validation(out), disk))
    /\ UNCHANGED <<mem_project, mem_task, mem_req, mem_run, rating_obj, disk, loaded_task, now, studio>>

\* out.output = output
SetOutputOutput(o, output) ==
    /\ mem_out[o].exists
    /\ mem_out[o].output # output
    /\ AssignOutput(o, [mem_out[o] EXCEPT !.output = output], "set_output_output")

\* out.rating = rating
SetOutputRating(o, rating) ==
    /\ mem_out[o].exists
    /\ mem_out[o].rating # rating
    /\ rating # NoRating => validate_rating(rating) = Ok
    /\ AssignOutput(o, [mem_out[o] EXCEPT !.rating = rating], "set_output_rating")

\* out.fixed_output = fixed_output
SetOutputFixed(o, fixed_output) ==
    /\ mem_out[o].exists
    /\ mem_out[o].fixed_output # fixed_output
    /\ AssignOutput(o, [mem_out[o] EXCEPT !.fixed_output = fixed_output],
                    "set_output_fixed_output")

\* out.parent = run, on an output built without a parent
SetOutputParent(o, r) ==
    /\ mem_out[o].exists
    /\ mem_out[o].parent = None
    /\ mem_run[r].exists
    /\ AssignOutput(o, [mem_out[o] EXCEPT !.parent = r], "set_output_parent")

\* out.save_to_file()
SaveOutput(o) ==
    /\ mem_out[o].exists
    /\ LET out == mem_out[o]
           res == FirstError(<<validate_TaskOutput(out, task_for_validation(out), disk),
                               PathError(out.saved \/
                                         (out.parent # None /\ mem_run[out.parent].saved))>>)
       IN  /\ last' = Result("save_output", o, out, res)
           /\ IF res = Ok
              THEN /\ disk' = [disk EXCEPT ![o] =
                                  ChildFile(out.parent, "TaskRun", "TaskOutput",
                                            dump_output(stamped(out), o))]
                   /\ mem_out' = [mem_out EXCEPT ![o] = [stamped(out) EXCEPT !.saved = TRUE]]
              ELSE UNCHANGED <<disk, mem_out>>
    /\ UNCHANGED <<mem_project, mem_task, mem_req, mem_run, rating_obj, loaded_task, now, studio>>

\* TaskOutput.load_from_file(path of o)
LoadOutput(o) ==
    /\ last' = Result("load_output", o, None, load_output(disk, o))
    /\ UNCHANGED <<mem_project, mem_task, mem_req, mem_run, mem_out, rating_obj, disk, loaded_task, now, studio>>

-----------------------------------------------------------------------------
(* Time, and a second handle to the Task.                                  *)

MaxClock == 2

\* time passes
Tick ==
    /\ now < MaxClock
    /\ now' = now + 1
    /\ UNCHANGED <<mem_project, mem_task, loaded_task, mem_req, mem_run, mem_out,
                   rating_obj, disk, studio, last>>

\* loaded = Task.load_from_file(path of the task)
LoadTask ==
    /\ last' = Result("load_task", "task", None, load_task(disk))
    /\ loaded_task' = IF load_task(disk) = Ok THEN parse_task(disk["task"])
                      ELSE loaded_task
    /\ UNCHANGED <<mem_project, mem_task, mem_req, mem_run, mem_out, rating_obj, disk,
                   now, studio>>

\* loaded.output_json_schema = osch
SetLoadedTaskOutputSchema(osch) ==
    /\ loaded_task.exists
    /\ loaded_task.output_json_schema # osch
    /\ loaded_task' = [loaded_task EXCEPT !.output_json_schema = osch]
    /\ last' = Result("set_loaded_task_output_schema", "task", None, Ok)
    /\ UNCHANGED <<mem_project, mem_task, mem_req, mem_run, mem_out, rating_obj, disk,
                   now, studio>>

\* loaded.input_json_schema = isch
SetLoadedTaskInputSchema(isch) ==
    /\ loaded_task.exists
    /\ loaded_task.input_json_schema # isch
    /\ loaded_task' = [loaded_task EXCEPT !.input_json_schema = isch]
    /\ last' = Result("set_loaded_task_input_schema", "task", None, Ok)
    /\ UNCHANGED <<mem_project, mem_task, mem_req, mem_run, mem_out, rating_obj, disk,
                   now, studio>>

\* loaded.save_to_file(): a loaded object has its path
SaveLoadedTask ==
    /\ loaded_task.exists
    /\ disk' = [disk EXCEPT !["task"] =
                   ChildFile(loaded_task.parent, "Project", "Task",
                             dump_task(stamped(loaded_task), "task"))]
    /\ loaded_task' = stamped(loaded_task)
    /\ last' = Result("save_loaded_task", "task", None, Ok)
    /\ UNCHANGED <<mem_project, mem_task, mem_req, mem_run, mem_out, rating_obj,
                   now, studio>>

-----------------------------------------------------------------------------
(* DataSource.                                                             *)

\* DataSource(type=..., properties=...)
ConstructDataSource(type, properties) ==
    LET source == [type |-> type, properties |-> properties]
        res == FirstError(<<validate_source_field(type),
                            validate_properties(type, properties)>>)
    IN  /\ last' = Result("construct_data_source", None, source, res)
        /\ UNCHANGED <<mem_project, mem_task, loaded_task, mem_req, mem_run, mem_out,
                       rating_obj, disk, now, studio>>

-----------------------------------------------------------------------------
(* The studio's handlers.                                                  *)

\* the existence check is left out
create_project_Overwrite(name) ==
    LET project_path == join(default_project_path, name)
        project_file == join(project_path, "project.json")
    IN  /\ fs' = [makedirs(fs, project_path) EXCEPT ![project_file] = ProjectFile(name)]
        /\ config_projects' = add_project_to_config(config_projects, project_file)
        /\ created' = Append(created, name)
        /\ last' = Result("create_project", name, [path |-> project_file], Ok)
        /\ UNCHANGED <<mem_project, mem_task, loaded_task, mem_req, mem_run, mem_out,
                       rating_obj, disk, now>>

\* POST /api/project with a Project of this name
create_project(name) ==
    LET project_path == join(default_project_path, name)
        project_file == join(project_path, "project.json")
    IN  /\ IF exists(fs, project_path)
           THEN /\ last' = Result("create_project", name, [path |-> project_file],
                                  HTTPException(400))
                /\ UNCHANGED <<fs, config_projects, created>>
           ELSE /\ fs' = [makedirs(fs, project_path) EXCEPT
                             ![project_file] = ProjectFile(name)]
                /\ config_projects' = add_project_to_config(config_projects, project_file)
                /\ created' = Append(created, name)
                /\ last' = Result("create_project", name, [path |-> project_file], Ok)
        /\ UNCHANGED <<mem_project, mem_task, loaded_task, mem_req, mem_run, mem_out,
                       rating_obj, disk, now>>

\* GET /api/projects: the configured paths that load; iterating a setting
\* that is no list raises
get_projects ==
    LET Loads(path) == load_project(fs, path) = Ok IN
    /\ last' = IF ~config_projects.is_list
               THEN Result("get_projects", None, [paths |-> <<>>], Err("TypeError", {}))
               ELSE Result("get_projects", None,
                           [paths |-> SelectSeq(config_projects.items, Loads)], Ok)
    /\ UNCHANGED <<mem_project, mem_task, loaded_task, mem_req, mem_run, mem_out,
                   rating_obj, disk, now, studio>>

\* POST /api/import_project with this project_path
import_project(project_path) ==
    /\ IF project_path = NonePath \/ ~exists(fs, project_path)
       THEN /\ last' = Result("import_project", None, [path |-> project_path],
                              HTTPException(400))
            /\ UNCHANGED config_projects
       ELSE IF load_project(fs, project_path) # Ok
       THEN /\ last' = Result("import_project", None, [path |-> project_path],
                              HTTPException(500))
            /\ UNCHANGED config_projects
       ELSE /\ config_projects' = add_project_to_config(config_projects, project_path)
            /\ last' = Result("import_project", None, [path |-> project_path], Ok)
    /\ UNCHANGED <<mem_project, mem_task, loaded_task, mem_req, mem_run, mem_out,
                   rating_obj, disk, now, fs, created>>

-----------------------------------------------------------------------------
(* Specifications.                                                         *)

Texts == {PlainText, GoodJson, BadJson}
Schemas == {None, SchemaNameAge}

\* Schema conformance: one run and one output under a task whose schemas vary.
Next ==
    \/ ConstructProject("Test Project")
    \/ SaveProject
    \/ \E osch \in Schemas, isch \in Schemas : ConstructTask(osch, isch)
    \/ \E osch \in Schemas : SetTaskOutputSchema(osch)
    \/ \E isch \in Schemas : SetTaskInputSchema(isch)
    \/ SaveTask
    \/ \E parent \in {None, "task"}, input \in Texts :
          ConstructRun("r1", parent, input, "human", HumanProps)
    \/ \E input \in Texts : SetRunInput("r1", input)
    \/ SetRunParent("r1")
    \/ SaveRun("r1")
    \/ LoadRun("r1")
    \/ \E parent \in {None, "r1"}, output \in Texts :
          ConstructOutput("o1", parent, output, "human", HumanProps, NoRating, None)
    \/ \E output \in Texts : SetOutputOutput("o1", output)
    \/ SetOutputParent("o1", "r1")
    \/ SaveOutput("o1")
    \/ LoadOutput("o1")

Spec == Init /\ [][Next]_vars

\* The hierarchy without schemas: two requirements, two runs, two outputs with
\* ratings and fixed outputs.
Rating(keys) ==
    [type |-> "five_star", rating |-> 8, requirement_ratings |-> [k \in keys |-> 10]]

TreeRatings == {NoRating, Rating({"q1", "q2"}), Rating({"unknown_id"})}

NextTree ==
    \/ ConstructProject("Test Project")
    \/ SaveProject
    \/ ConstructTask(None, None)
    \/ SaveTask
    \/ \E q \in ReqIds : ConstructRequirement(q)
    \/ \E q \in ReqIds : SaveRequirement(q)
    \/ \E r \in RunIds : ConstructRun(r, "task", PlainText, "human", HumanProps)
    \/ \E r \in RunIds : SaveRun(r)
    \/ \E r \in RunIds :
          ConstructOutput("o1", r, PlainText, "human", HumanProps, NoRating, None)
    \/ ConstructOutput("o2", "r2", PlainText, "human", HumanProps, NoRating, None)
    \/ \E rating \in TreeRatings : SetOutputRating("o1", rating)
    \/ \E fixed_output \in {None, FixedJson} : SetOutputFixed("o1", fixed_output)
    \/ \E o \in OutIds : SaveOutput(o)
    \/ LoadOutput("o1")

SpecTree == Init /\ [][NextTree]_vars

\* TaskOutputRating on its own, one constructor call per behaviour: every
\* rating and requirement rating from 0.0 to MaxRatingHalves / 2 in steps of
\* one half.
MaxRatingHalves == 12
RatingTypes == {"five_star", "custom", "thumbs"}
RatingKeys == {"q1", "q2"}

NextRating ==
    /\ last.op = "init"
    /\ \E type \in RatingTypes, rating \in 0..MaxRatingHalves, keys \in SUBSET RatingKeys :
          \E requirement_ratings \in [keys -> 0..MaxRatingHalves] :
              ConstructRating(type, rating, requirement_ratings)

SpecRating == Init /\ [][NextRating]_vars

\* TaskOutput without a parent, one constructor call per behaviour: every
\* source with every choice of present, empty and missing source_properties
\* keys.
SourceKeys == HumanKeys \cup SyntheticKeys
SourceValues == {"", "x"}

NextSource ==
    /\ last.op = "init"
    /\ \E source \in {"human", "synthetic", "invalid_source"}, keys \in SUBSET SourceKeys :
          \E props \in [keys -> SourceValues] :
              ConstructOutput("o1", None, PlainText, source, props, NoRating, None)

SpecSource == Init /\ [][NextSource]_vars

\* Saving and saving again as time passes: a run and an output, each with
\* every kind of source_properties.
SyntheticProps ==
    [adapter_name |-> "TestAdapter", model_name |-> "GPT-4",
     model_provider |-> "OpenAI", prompt_builder_name |-> "TestPromptBuilder"]

SaveProps ==
    {EmptyProps, HumanProps, [creator |-> ""],
     [creator |-> "john_doe", model_name |-> "GPT-4"], SyntheticProps}

NextSave ==
    \/ ConstructProject("Test Project")
    \/ SaveProject
    \/ ConstructTask(None, None)
    \/ SaveTask
    \/ \E source \in {"human", "synthetic"}, props \in SaveProps :
          ConstructRun("r1", "task", PlainText, source, props)
    \/ SaveRun("r1")
    \/ \E source \in {"human", "synthetic"}, props \in SaveProps :
          ConstructOutput("o1", "r1", PlainText, source, props, NoRating, None)
    \/ \E fixed_output \in {None, FixedJson} : SetOutputFixed("o1", fixed_output)
    \/ SaveOutput("o1")
    \/ Tick

SpecSave == Init /\ [][NextSave]_vars

\* DataSource on its own, one constructor call per behaviour: every type
\* with every choice of properties among the keys of the table and one key
\* that is not in it, each an empty string, a string or an int.
DataSourceKeys == {"created_by", "model_name", "model_provider", "prompt_type", "note"}
PropertyValues == {PyStr(""), PyStr("x"), PyInt("1")}

NextDataSource ==
    /\ last.op = "init"
    /\ \E type \in {"human", "synthetic", "invalid_source"}, keys \in SUBSET DataSourceKeys :
          \E properties \in [keys -> PropertyValues] :
              ConstructDataSource(type, properties)

SpecDataSource == Init /\ [][NextDataSource]_vars

\* Two handles to one Task: the object the run was built with, and a copy
\* loaded from the file, changed and saved.
HandleTexts == {PlainText, GoodJson}
HandleRatings == {NoRating, Rating({"q1"})}

NextHandles ==
    \/ ConstructProject("Test Project")
    \/ SaveProject
    \/ \E osch \in Schemas, isch \in Schemas : ConstructTask(osch, isch)
    \/ SaveTask
    \/ LoadTask
    \/ \E osch \in Schemas : SetLoadedTaskOutputSchema(osch)
    \/ \E isch \in Schemas : SetLoadedTaskInputSchema(isch)
    \/ SaveLoadedTask
    \/ ConstructRequirement("q1")
    \/ SaveRequirement("q1")
    \/ \E input \in HandleTexts : ConstructRun("r1", "task", input, "human", HumanProps)
    \/ SaveRun("r1")
    \/ \E output \in HandleTexts, rating \in HandleRatings :
          ConstructOutput("o1", "r1", output, "human", HumanProps, rating, None)
    \/ SaveOutput("o1")

SpecHandles == Init /\ [][NextHandles]_vars

\* The studio: projects created under the default directory and project
\* files imported from given paths.
ImportPaths ==
    {GoodFile, OtherGoodFile, BrokenFile, MissingFile, NonePath}
    \cup {join(default_project_path, name) : name \in ProjectNames}
    \cup {join(join(default_project_path, name), "project.json") : name \in ProjectNames}

NextStudio ==
    \/ \E name \in ProjectNames : create_project(name)
    \/ get_projects
    \/ \E project_path \in ImportPaths : import_project(project_path)

SpecStudio == Init /\ [][NextStudio]_vars

-----------------------------------------------------------------------------
(* Properties.                                                             *)

\* The texts that parse as JSON and satisfy SchemaNameAge, stated outright.
ConformingTexts == {GoodJson, FixedJson}

\* the in-memory output o hangs under a TaskRun whose Task declares an output schema
DeclaresOutputSchema(out) ==
    /\ out.parent # None
    /\ mem_run[out.parent].parent # None
    /\ mem_task.output_json_schema = SchemaNameAge

\* the in-memory run hangs under a Task that declares an input schema
DeclaresInputSchema(run) ==
    /\ run.parent # None
    /\ mem_task.input_json_schema = SchemaNameAge

SchemaErrors == {"output_not_json", "output_schema_mismatch"}
InputErrors == {"input_not_json", "input_schema_mismatch"}

\* C1: under a Task that declares output_json_schema, constructing or saving a
\* TaskOutput whose output is not JSON or does not satisfy the schema fails
\* (for a new output and for a saved one whose output was changed), and
\* saving one whose output conforms succeeds, after which loading the file
\* succeeds and returns the same output text.
C1_OutputSchemaOnSave ==
    /\ (last.op \in {"construct_output", "save_output"}
        /\ DeclaresOutputSchema(last.arg)
        /\ last.arg.output \notin ConformingTexts)
       => /\ ~last.ok
          /\ last.err.kind \in SchemaErrors
          /\ ~last.arg.saved => ~disk[last.id].exists
    /\ (last.op = "save_output"
        /\ DeclaresOutputSchema(last.arg)
        /\ last.arg.output \in ConformingTexts
        /\ mem_run[last.arg.parent].saved)
       => /\ last.ok
          /\ load_output(disk, last.id) = Ok
          /\ parse_output(disk[last.id]).output = last.arg.output

\* C1 witness: a saved output was changed to a non-conforming text and its
\* save failed, the file still holding the earlier text.
C1_Witness ==
    /\ last.op = "save_output"
    /\ ~last.ok
    /\ last.arg.saved
    /\ DeclaresOutputSchema(last.arg)
    /\ last.arg.output = BadJson
    /\ disk[last.id].json.output.v = GoodJson

\* C2: under a Task that declares input_json_schema and is saved, save(R)
\* succeeds exactly when R.input parses as JSON and satisfies the schema, for
\* a new run and for a saved run whose input was changed.
C2_InputSchemaIffSave ==
    (last.op = "save_run" /\ DeclaresInputSchema(last.arg) /\ mem_task.saved)
    => /\ last.ok <=> last.arg.input \in ConformingTexts
       /\ last.ok => parse_run(disk[last.id]).input = last.arg.input

\* C2 witness: both directions happen, here the failing one on a saved run.
C2_Witness ==
    /\ last.op = "save_run"
    /\ DeclaresInputSchema(last.arg)
    /\ mem_task.saved
    /\ last.arg.saved
    /\ last.arg.input = BadJson
    /\ ~last.ok

\* the object a save operation validated is invalid by the schema rules
InvalidForSave(l) ==
    \/ l.op = "save_output" /\ DeclaresOutputSchema(l.arg)
         /\ l.arg.output \notin ConformingTexts
    \/ l.op = "save_run" /\ DeclaresInputSchema(l.arg)
         /\ l.arg.input \notin ConformingTexts

\* C4: a save of an entity that is invalid raises and leaves every file as it
\* was; in general no operation that raises changes any file.
C4_FailedSaveWritesNothing ==
    [][/\ InvalidForSave(last') => (~last'.ok /\ disk' = disk)
       /\ ~last'.ok => disk' = disk]_vars

\* C4 witness: a previously saved run, changed to an invalid input, failed to
\* save.
C4_Witness ==
    /\ last.op = "save_run"
    /\ last.arg.saved
    /\ InvalidForSave(last)
    /\ ~last.ok
    /\ disk[last.id].json.input.v = GoodJson

\* C5: constructing a TaskOutput that has no Task to validate against (no
\* parent, or a parent TaskRun without a Task) never fails on its output;
\* once it hangs under a Task declaring the schema, saving it with a
\* non-conforming output fails and no file is written for it.
C5_DetachedValidationDeferred ==
    /\ (last.op = "construct_output" /\ ~task_for_validation(last.arg).exists)
       => (last.ok /\ mem_out[last.id].deferred)
    /\ (last.op = "save_output"
        /\ last.arg.deferred
        /\ DeclaresOutputSchema(last.arg)
        /\ last.arg.output \notin ConformingTexts)
       => /\ ~last.ok
          /\ last.err.kind \in SchemaErrors
          /\ ~last.arg.saved => ~disk[last.id].exists

\* C5 witness: an output built detached with a bad output, attached to a saved
\* run under a saved Task with the schema, failed to save.
C5_Witness ==
    /\ last.op = "save_output"
    /\ last.arg.deferred
    /\ DeclaresOutputSchema(last.arg)
    /\ mem_run[last.arg.parent].saved
    /\ last.arg.output = BadJson
    /\ ~last.ok
    /\ ~disk[last.id].exists

\* the Task file declares an output (input) schema
DiskOutputSchema == disk["task"].exists /\ disk["task"].json.output_json_schema # Null
DiskInputSchema == disk["task"].exists /\ disk["task"].json.input_json_schema # Null

\* C10: loading a TaskOutput (TaskRun) file whose output (input) does not
\* satisfy the schema the Task file now declares fails with a validation error.
C10_LoadRevalidates ==
    /\ (last.op = "load_output" /\ disk[last.id].exists /\ DiskOutputSchema
        /\ disk[last.id].json.output.v \notin ConformingTexts)
       => (~last.ok /\ last.err.kind \in SchemaErrors)
    /\ (last.op = "load_run" /\ disk[last.id].exists /\ DiskInputSchema
        /\ disk[last.id].json.input.v \notin ConformingTexts)
       => (~last.ok /\ last.err.kind \in InputErrors)

\* C10 witness: an output saved while the Task had no output schema fails to
\* load after the Task was saved with one.
C10_Witness ==
    /\ last.op = "load_output"
    /\ disk[last.id].exists
    /\ DiskOutputSchema
    /\ disk[last.id].json.output.v = PlainText
    /\ ~last.ok

\* the requirements that were saved under the Task
SavedRequirements == {q \in ReqIds : mem_req[q].saved /\ mem_req[q].parent = "task"}

\* the keys of the requirement ratings of an output
RatingKeysOf(out) ==
    IF out.rating = NoRating THEN {} ELSE DOMAIN out.rating.requirement_ratings

\* C3: saving a TaskOutput (under a TaskRun under a Task) whose rating has
\* requirement_ratings keys succeeds only if every key is the id of a
\* TaskRequirement saved under that Task; a key that is not fails the save
\* with the invalid-requirement-id error naming it, and with all keys valid
\* and the run saved the save succeeds.
C3_RatingKeysAreRequirementIds ==
    (last.op = "save_output"
     /\ RatingKeysOf(last.arg) # {}
     /\ task_for_validation(last.arg).exists)
    => /\ last.ok => RatingKeysOf(last.arg) \subseteq SavedRequirements
       /\ ~(RatingKeysOf(last.arg) \subseteq SavedRequirements)
          => /\ ~last.ok
             /\ last.err = Err("invalid_requirement_id",
                               RatingKeysOf(last.arg) \ SavedRequirements)
       /\ (RatingKeysOf(last.arg) \subseteq SavedRequirements
           /\ mem_run[last.arg.parent].saved)
          => /\ last.ok
             /\ RatingKeysOf(parse_output(disk[last.id])) = RatingKeysOf(last.arg)

\* C3 witness: a save failed because one of two keys names a requirement that
\* was constructed but not saved.
C3_Witness ==
    /\ last.op = "save_output"
    /\ RatingKeysOf(last.arg) = {"q1", "q2"}
    /\ Cardinality(SavedRequirements) = 1
    /\ \A q \in ReqIds : mem_req[q].exists
    /\ mem_run[last.arg.parent].saved
    /\ ~last.ok

\* the 1.0, 2.0, 3.0, 4.0 and 5.0 stars, in halves
FiveStarValues == {2, 4, 6, 8, 10}

\* C6: a TaskOutputRating of type five_star validates if and only if its
\* rating and every value of requirement_ratings is one of 1.0 .. 5.0 with no
\* fractional part.
C6_FiveStarIff ==
    (last.op = "construct_rating" /\ last.arg.type = "five_star")
    => /\ last.ok <=>
            /\ last.arg.rating \in FiveStarValues
            /\ \A k \in DOMAIN last.arg.requirement_ratings :
                  last.arg.requirement_ratings[k] \in FiveStarValues
       /\ last.ok => rating_obj = last.arg
       /\ ~last.ok => rating_obj = NoRating

\* C6 witness: a valid overall rating with one fractional requirement rating
\* among two is rejected.
C6_Witness ==
    /\ last.op = "construct_rating"
    /\ last.arg.type = "five_star"
    /\ last.arg.rating = 8
    /\ last.arg.requirement_ratings = [q1 |-> 10, q2 |-> 5]
    /\ ~last.ok

\* the keys required for a source, stated outright
RequiredKeysFor(source) ==
    IF source = "human" THEN {"creator"}
    ELSE {"adapter_name", "model_name", "model_provider", "prompt_builder_name"}

MissingRequired(out) == RequiredKeysFor(out.source) \ DOMAIN out.source_properties

EmptyRequired(out) ==
    {k \in RequiredKeysFor(out.source) \cap DOMAIN out.source_properties :
        out.source_properties[k] = ""}

IsSourceCase == 
    /\ last.op = "construct_output"
    /\ last.arg.parent = None
    /\ last.arg.source \in {"human", "synthetic"}

\* C7 as claimed: a missing required key fails with the error naming the
\* missing keys, an empty required value fails with the empty-string error,
\* and a parentless TaskOutput with every required key non-empty is accepted.
C7_AsClaimed ==
    IsSourceCase
    => /\ MissingRequired(last.arg) # {}
          => last.err = Err("source_properties_missing", MissingRequired(last.arg))
       /\ EmptyRequired(last.arg) # {}
          => last.err.kind = "source_properties_empty"
       /\ (MissingRequired(last.arg) = {} /\ EmptyRequired(last.arg) = {}) => last.ok

\* C7, amended: a parentless TaskOutput is accepted exactly when every
\* required key is present and non-empty; an empty required value fails with
\* the empty-string error, also when other required keys are missing; a
\* missing required key with no empty required value fails with the error
\* naming all missing keys.
C7_SourcePropertiesRequired ==
    IsSourceCase
    => /\ last.ok <=> (MissingRequired(last.arg) = {} /\ EmptyRequired(last.arg) = {})
       /\ EmptyRequired(last.arg) # {}
          => last.err = Err("source_properties_empty", EmptyRequired(last.arg))
       /\ (MissingRequired(last.arg) # {} /\ EmptyRequired(last.arg) = {})
          => last.err = Err("source_properties_missing", MissingRequired(last.arg))
       /\ last.ok => mem_out[last.id] = last.arg
       /\ ~last.ok => ~mem_out[last.id].exists

\* C7 witness: a synthetic output with one required key empty and another
\* missing fails with the empty-string error.
C7_Witness ==
    /\ IsSourceCase
    /\ last.arg.source = "synthetic"
    /\ MissingRequired(last.arg) # {}
    /\ EmptyRequired(last.arg) # {}
    /\ last.err.kind = "source_properties_empty"

\* the persisted fields of an object and of what load_from_file returns
PersistedRun(run) ==
    [input |-> run.input, source |-> run.source,
     source_properties |-> run.source_properties]

PersistedOutput(out) ==
    [output |-> out.output, source |-> out.source,
     source_properties |-> out.source_properties, rating |-> out.rating,
     fixed_output |-> out.fixed_output]

PersistedTask(task) ==
    [output_json_schema |-> task.output_json_schema,
     input_json_schema |-> task.input_json_schema]

\* C8: after a successful save of an entity, loading its file succeeds and
\* returns an entity equal in every persisted field.
C8_RoundTrip ==
    /\ (last.op = "save_output" /\ last.ok)
       => /\ load_output(disk, last.id) = Ok
          /\ PersistedOutput(parse_output(disk[last.id])) = PersistedOutput(mem_out[last.id])
    /\ (last.op = "save_run" /\ last.ok)
       => /\ load_run(disk, last.id) = Ok
          /\ PersistedRun(parse_run(disk[last.id])) = PersistedRun(mem_run[last.id])
    /\ (last.op = "save_task" /\ last.ok)
       => PersistedTask(parse_task(disk["task"])) = PersistedTask(mem_task)
    /\ (last.op = "save_requirement" /\ last.ok)
       => parse_req(disk[last.id]) = mem_req[last.id]
    /\ (last.op = "save_project" /\ last.ok)
       => parse_project(disk["project"]) = mem_project

\* C9: the children of each relationship are exactly the entities of the
\* child type saved with that parent.
C9_ChildrenAreSavedChildren ==
    /\ children(disk, "project", "Project", "tasks")
           = {id \in {"task"} : mem_task.saved}
    /\ children(disk, "task", "Task", "requirements")
           = {q \in ReqIds : mem_req[q].saved}
    /\ children(disk, "task", "Task", "runs")
           = {r \in RunIds : mem_run[r].saved}
    /\ \A r \in RunIds :
          children(disk, r, "TaskRun", "outputs")
              = {o \in OutIds : mem_out[o].saved /\ mem_out[o].parent = r}

\* C9 witness: two runs and one requirement are saved, a second requirement
\* is constructed but not saved, an output is saved under each run and one
\* was saved again after a change.
C9_Witness ==
    /\ \A r \in RunIds : mem_run[r].saved
    /\ mem_req["q1"].saved /\ mem_req["q2"].exists /\ ~mem_req["q2"].saved
    /\ mem_out["o1"].saved /\ mem_out["o1"].parent = "r1"
    /\ mem_out["o2"].saved /\ mem_out["o2"].parent = "r2"
    /\ last.op = "save_output" /\ last.ok /\ last.arg.saved
    /\ last.arg.fixed_output = FixedJson

SaveOps == {"save_project", "save_task", "save_requirement", "save_run", "save_output"}

\* C11: when a save that succeeded is followed, with nothing but the passing
\* of time in between, by a save of the same entity, the second save succeeds
\* and leaves every file as the first wrote it; the id and created_at in the
\* entity's file are the ones the first save wrote.
C11_SaveIdempotent ==
    [][(/\ last.op \in SaveOps
        /\ last.ok
        /\ last'.op = last.op
        /\ last'.id = last.id
        /\ now' = now)
       => /\ last'.ok
          /\ disk' = disk
          /\ disk'[last.id].json.id = disk[last.id].json.id
          /\ disk'[last.id].json.created_at = disk[last.id].json.created_at]_vars

\* C11 witness: a saved output was saved again at a later time than the one
\* its file carries as created_at.
C11_Witness ==
    /\ last.op = "save_output"
    /\ last.ok
    /\ last.arg.saved
    /\ last.arg.created_at # Null
    /\ last.arg.created_at.v < now
    /\ disk[last.id].json = dump_output(last.arg, last.id)

OutputOps == {"construct_output", "set_output_output", "set_output_parent", "save_output"}
RunOps == {"construct_run", "set_run_input", "set_run_parent", "save_run"}

\* C12: under a Task that declares no output_json_schema (input_json_schema)
\* no validation of a TaskOutput (TaskRun) fails on the output (input) text,
\* whatever it is, and with the parent saved the save succeeds and the file
\* holds the text.
C12_NoSchemaNoConstraint ==
    /\ (last.op \in OutputOps
        /\ task_for_validation(last.arg).exists
        /\ task_for_validation(last.arg).output_json_schema = None)
       => /\ last.err.kind \notin SchemaErrors
          /\ (last.op = "save_output" /\ mem_run[last.arg.parent].saved)
             => (last.ok /\ disk[last.id].json.output = Str(last.arg.output))
    /\ (last.op \in RunOps
        /\ RunParent(last.arg).exists
        /\ RunParent(last.arg).input_json_schema = None)
       => /\ last.err.kind \notin InputErrors
          /\ (last.op = "save_run" /\ mem_task.saved)
             => (last.ok /\ disk[last.id].json.input = Str(last.arg.input))

\* C12 witness: a plain text output was saved under a Task that declares an
\* input schema and no output schema.
C12_Witness ==
    /\ last.op = "save_output"
    /\ last.ok
    /\ last.arg.output = PlainText
    /\ mem_task.output_json_schema = None
    /\ mem_task.input_json_schema = SchemaNameAge
    /\ disk[last.id].json.output = Str(PlainText)

\* the keys the property table forbids for a source, stated outright
ForbiddenKeysFor(source) ==
    IF source = "human" THEN {"model_name", "model_provider", "prompt_type"}
    ELSE {"created_by"}

SatisfiesKeySets(source, source_properties) ==
    /\ \A k \in RequiredKeysFor(source) :
          k \in DOMAIN source_properties /\ source_properties[k] # ""
    /\ \A k \in ForbiddenKeysFor(source) : k \notin DOMAIN source_properties

\* C13: every TaskRun file and every TaskOutput file has source_properties
\* with every key required for its source present and non-empty and no key
\* forbidden for its source.
C13_PersistedSourceProperties ==
    /\ \A r \in RunIds :
          disk[r].exists
          => SatisfiesKeySets(parse_run(disk[r]).source,
                              parse_run(disk[r]).source_properties)
    /\ \A o \in OutIds :
          disk[o].exists
          => SatisfiesKeySets(parse_output(disk[o]).source,
                              parse_output(disk[o]).source_properties)

\* the names the property table requires for a type, stated outright
TableRequired(type) ==
    IF type = "human" THEN {"created_by"} ELSE {"model_name", "model_provider"}

\* C14: a DataSource with a property required for its type missing or empty
\* fails validation; one with a property not allowed for its type fails
\* whatever the value; and one with every required property a non-empty
\* string and no property that is not allowed validates, whatever keys
\* outside the table it has.
C14_DataSourceTable ==
    (last.op = "construct_data_source" /\ last.arg.type \in {"human", "synthetic"})
    => LET properties == last.arg.properties
           lacking == {k \in TableRequired(last.arg.type) :
                          k \notin DOMAIN properties \/ properties[k] = PyStr("")}
           not_allowed == ForbiddenKeysFor(last.arg.type) \cap DOMAIN properties
       IN  /\ lacking # {} => ~last.ok
           /\ not_allowed # {} => ~last.ok
           /\ (/\ \A k \in TableRequired(last.arg.type) :
                     k \in DOMAIN properties
                     /\ properties[k].py = "str"
                     /\ properties[k] # PyStr("")
               /\ not_allowed = {})
              => last.ok

\* the verdict the persisted Task and requirement files decide
PersistedVerdictOutput(out) ==
    validate_TaskOutput(out, parse_task(disk["task"]), disk)

PersistedVerdictRun(run) ==
    validate_TaskRun(run, parse_task(disk["task"]))

\* C15: whenever a TaskOutput (TaskRun) under a saved Task is validated, at
\* construction or at save, the verdict is the one that the Task file and
\* the requirement files of that moment decide.
C15_ValidatorsSeePersistedAncestors ==
    /\ (last.op \in {"construct_output", "save_output"}
        /\ task_for_validation(last.arg).exists
        /\ disk["task"].exists)
       => /\ last.ok => PersistedVerdictOutput(last.arg) = Ok
          /\ PersistedVerdictOutput(last.arg) # Ok
             => last.err = PersistedVerdictOutput(last.arg)
    /\ (last.op \in {"construct_run", "save_run"}
        /\ RunParent(last.arg).exists
        /\ disk["task"].exists)
       => /\ last.ok => PersistedVerdictRun(last.arg) = Ok
          /\ PersistedVerdictRun(last.arg) # Ok
             => last.err = PersistedVerdictRun(last.arg)

\* no element occurs twice in the sequence
NoDuplicates(items) ==
    \A i, j \in 1..Len(items) : items[i] = items[j] => i = j

\* C16: a create_project call for a name whose directory exists under the
\* default project directory is rejected with status 400 and changes neither
\* the file system nor the configured project list; otherwise it creates the
\* directory, writes <dir>/project.json, and the configured list holds that
\* file path; no other path is touched, and no name has two successful calls.
C16_CreateNeverOverwrites ==
    [][\A name \in ProjectNames :
          (last'.op = "create_project" /\ last'.id = name)
          => LET project_path == join(default_project_path, name)
                 project_file == join(project_path, "project.json")
             IN  /\ IF exists(fs, project_path)
                    THEN /\ last'.err = HTTPException(400)
                         /\ fs' = fs
                         /\ config_projects' = config_projects
                         /\ created' = created
                    ELSE /\ last'.ok
                         /\ fs'[project_path] = Directory
                         /\ fs'[project_file] = ProjectFile(name)
                         /\ config_projects'.is_list
                         /\ contains(config_projects'.items, project_file)
                         /\ \A q \in Paths \ {default_project_path, project_path,
                                              project_file} : fs'[q] = fs[q]
                 /\ NoDuplicates(created')]_vars

\* C16 witness: with both projects created, a second call for the first name
\* was rejected with 400.
C16_Witness ==
    /\ last.op = "create_project"
    /\ last.err = HTTPException(400)
    /\ Len(created) = 2
    /\ created[1] = last.id
    /\ fs[last.arg.path] = ProjectFile(last.id)

\* C17: the configured project list never holds a path twice; an
\* import_project call of a path that is None or has nothing at it fails
\* with 400, one of a path that does not load as a project fails with 500,
\* and both leave the list as it was; importing a listed path again leaves
\* the list as it was.
C17_ConfigListNoDuplicates ==
    [][/\ NoDuplicates(config_projects'.items)
       /\ last'.op = "import_project"
          => LET project_path == last'.arg.path IN
             /\ ~last'.ok => config_projects' = config_projects
             /\ (project_path = NonePath \/ ~exists(fs, project_path))
                => last'.err = HTTPException(400)
             /\ (project_path # NonePath /\ exists(fs, project_path)
                 /\ ~fs[project_path].loads)
                => last'.err = HTTPException(500)
             /\ (project_path # NonePath /\ exists(fs, project_path)
                 /\ fs[project_path].loads)
                => /\ last'.ok
                   /\ contains(config_projects'.items, project_path)
                   /\ contains(config_projects.items, project_path)
                      => config_projects' = config_projects]_vars

\* C17 witness: the first path of a list of three, created and imported
\* ones, was imported again.
C17_Witness ==
    /\ last.op = "import_project"
    /\ last.ok
    /\ Len(config_projects.items) = 3
    /\ config_projects.items[1] = last.arg.path
    /\ \E name \in ProjectNames :
          contains(config_projects.items,
                   join(join(default_project_path, name), "project.json"))

====
